---- MODULE Spec2Model ----
(***************************************************************************)
(* Model of src/app.py: the identifier normalizer                          *)
(* (validate_youtube_input / normalize_youtube_url), the file store        *)
(* handlers (download_file, delete_file, list_downloads) and the download  *)
(* orchestrator (download_video).                                          *)
(*                                                                         *)
(* Strings are sequences of one-character strings, so that strip,          *)
(* startswith, "in", replace and isalnum are computed as Python computes   *)
(* them.  Paths are resolved as os.path.join / os.path.abspath resolve     *)
(* them on a POSIX system (os.sep = "/").                                  *)
(***************************************************************************)
EXTENDS Integers, Sequences, FiniteSets, TLC

VARIABLES
    raw,      \* text submitted to the normalizer
    norm,     \* outcome of validate_youtube_input(raw), None before the call
    fs,       \* the filesystem: absolute path |-> [kind, mtime, size]
    clock,    \* filesystem time, stamps the mtime of each written file
    call,     \* the last request handled and what the collaborator did in it
    resp,     \* the response of the last request
    touched,  \* absolute paths the last request handed to the filesystem
    deleted,  \* names and mtimes of the files removed by delete_file
    pc,       \* concurrent requests: the position of each worker thread
    loc       \* concurrent requests: the local variables of each worker thread

normVars == <<raw, norm>>
storeVars == <<fs, clock, call, resp, touched, deleted>>
procVars == <<pc, loc>>
vars == <<raw, norm, fs, clock, call, resp, touched, deleted, pc, loc>>

(***************************************************************************)
(* Bounds of the model                                                     *)
(***************************************************************************)
\* short inputs have a trimmed core of 0..MaxShortLen characters
MaxShortLen == 12
\* long inputs have a core of 2048-LongSlack .. 2048+LongSlack characters
LongSlack == 1
\* every text of at most MaxNameLen characters is a name handed to delete_file
\* and download_file, besides the crafted and the listed names
MaxNameLen == 1
\* at most MaxWrites files are written by the extraction collaborator
MaxWrites == 2
\* requests handled at the same time
NumWorkers == 2

(***************************************************************************)
(* Python string primitives                                                *)
(***************************************************************************)
\* characters str.strip() removes (the ones the model's inputs use)
Whitespace == {" ", "\t"}

\* characters for which str.isalnum() is true (the ones the model's inputs use)
AlnumChars == {"a", "Z", "9", "h", "t", "p", "s", "y", "o", "u", "b", "e",
               "c", "m", "w", "v"}

RECURSIVE first_kept(_, _)
\* index of the first character at or after i that strip() keeps
first_kept(s, i) ==
    IF i > Len(s) \/ s[i] \notin Whitespace THEN i ELSE first_kept(s, i + 1)

RECURSIVE last_kept(_, _)
\* index of the last character at or before i that strip() keeps
last_kept(s, i) ==
    IF i < 1 \/ s[i] \notin Whitespace THEN i ELSE last_kept(s, i - 1)

\* s.strip()
strip(s) == SubSeq(s, first_kept(s, 1), last_kept(s, Len(s)))

\* s.startswith(p)
startswith(s, p) == Len(s) >= Len(p) /\ SubSeq(s, 1, Len(p)) = p

\* p in s, for a non-empty p
contains(s, p) ==
    \E i \in 1..(Len(s) - Len(p) + 1) : SubSeq(s, i, i + Len(p) - 1) = p

\* s.replace(c, '') for a single character c
remove_char(s, c) == SelectSeq(s, LAMBDA x : x # c)

\* s.replace(c, r) for single characters c and r
replace_char(s, c, r) == [i \in 1..Len(s) |-> IF s[i] = c THEN r ELSE s[i]]

\* c * n
Fill(c, n) == [i \in 1..n |-> c]

\* s.isalnum(): false for the empty string
isalnum(s) == Len(s) > 0 /\ \A i \in 1..Len(s) : s[i] \in AlnumChars

HTTP == <<"h", "t", "t", "p", ":", "/", "/">>
HTTPS == <<"h", "t", "t", "p", "s", ":", "/", "/">>
YOUTUBE_COM == <<"y", "o", "u", "t", "u", "b", "e", ".", "c", "o", "m">>
YOUTU_BE == <<"y", "o", "u", "t", "u", ".", "b", "e">>
\* "https://www.youtube.com/watch?v="
WATCH_URL == HTTPS \o <<"w", "w", "w", ".">> \o YOUTUBE_COM
             \o <<"/", "w", "a", "t", "c", "h", "?", "v", "=">>

ForbiddenChars == {"<", ">", "\"", "'"}

MaxUrlLen == 2048
IdLen == 11

\* s.startswith(('http://', 'https://'))
has_scheme(s) == startswith(s, HTTP) \/ startswith(s, HTTPS)

(***************************************************************************)
(* Identifier normalizer                                                   *)
(***************************************************************************)
\* no call of the normalizer yet
None == [ok |-> FALSE, url |-> <<>>, error |-> "none"]

Accepted(url) == [ok |-> TRUE, url |-> url, error |-> ""]
Rejected(msg) == [ok |-> FALSE, url |-> <<>>, error |-> msg]

\* variant: only 'https://' counts as a scheme
normalize_youtube_url_https_only(url_or_id) ==
    LET s == strip(url_or_id)
    IN  IF startswith(s, HTTPS) THEN s
        ELSE IF Len(s) = IdLen /\ isalnum(remove_char(remove_char(s, "-"), "_"))
             THEN WATCH_URL \o s
        ELSE IF contains(s, YOUTUBE_COM) \/ contains(s, YOUTU_BE)
             THEN IF ~has_scheme(s) THEN HTTPS \o s ELSE s
        ELSE WATCH_URL \o s

\* variant: the permissive fallback prefixes the scheme only
normalize_youtube_url_bare_fallback(url_or_id) ==
    LET s == strip(url_or_id)
    IN  IF has_scheme(s) THEN s
        ELSE IF Len(s) = IdLen /\ isalnum(remove_char(remove_char(s, "-"), "_"))
             THEN WATCH_URL \o s
        ELSE IF contains(s, YOUTUBE_COM) \/ contains(s, YOUTU_BE)
             THEN IF ~has_scheme(s) THEN HTTPS \o s ELSE s
        ELSE HTTPS \o s

normalize_youtube_url(url_or_id) ==
    LET s == strip(url_or_id)
    IN  IF has_scheme(s) THEN s
        ELSE IF Len(s) = IdLen /\ isalnum(remove_char(remove_char(s, "-"), "_"))
             THEN WATCH_URL \o s
        ELSE IF contains(s, YOUTUBE_COM) \/ contains(s, YOUTU_BE)
             THEN IF ~has_scheme(s) THEN HTTPS \o s ELSE s
        ELSE WATCH_URL \o s

\* variant: the length limit is applied before trimming
validate_youtube_input_untrimmed_len(url_or_id) ==
    IF url_or_id = <<>> \/ strip(url_or_id) = <<>>
    THEN Rejected("Please enter a YouTube video ID or URL")
    ELSE LET s == strip(url_or_id)
         IN  IF \E i \in 1..Len(s) : s[i] \in ForbiddenChars
             THEN Rejected("Invalid characters in URL")
             ELSE IF Len(url_or_id) > MaxUrlLen
             THEN Rejected("URL too long")
             ELSE Accepted(normalize_youtube_url(s))

validate_youtube_input(url_or_id) ==
    IF url_or_id = <<>> \/ strip(url_or_id) = <<>>
    THEN Rejected("Please enter a YouTube video ID or URL")
    ELSE LET s == strip(url_or_id)
         IN  IF \E i \in 1..Len(s) : s[i] \in ForbiddenChars
             THEN Rejected("Invalid characters in URL")
             ELSE IF Len(s) > MaxUrlLen
             THEN Rejected("URL too long")
             ELSE Accepted(normalize_youtube_url(s))

(***************************************************************************)
(* Paths (posixpath) and the filesystem                                    *)
(***************************************************************************)
SEP == "/"
DOWNLOADS_DIR == <<"d", "o", "w", "n", "l", "o", "a", "d", "s">>
\* os.getcwd(): the directory the application is started in
CWD == <<"/", "s", "r", "v">>

RECURSIVE split_from(_, _, _)
\* the components of path from character i on, acc holding those before it
split_from(path, i, acc) ==
    IF i > Len(path) THEN acc
    ELSE IF path[i] = SEP THEN split_from(path, i + 1, Append(acc, <<>>))
    ELSE split_from(path, i + 1, [acc EXCEPT ![Len(acc)] = Append(@, path[i])])

\* path.split('/')
split(path) == split_from(path, 1, << <<>> >>)

\* '/'.join(comps)
RECURSIVE joinsep(_)
joinsep(comps) ==
    IF comps = <<>> THEN <<>>
    ELSE IF Len(comps) = 1 THEN comps[1]
    ELSE comps[1] \o <<SEP>> \o joinsep(Tail(comps))

\* os.path.join(a, b)
join(a, b) ==
    IF startswith(b, <<SEP>>) THEN b
    ELSE IF a = <<>> \/ a[Len(a)] = SEP THEN a \o b
    ELSE a \o <<SEP>> \o b

DOTDOT == <<".", ".">>

\* the loop of os.path.normpath over the components of a path
RECURSIVE collapse(_, _, _)
collapse(comps, new_comps, initial_slashes) ==
    IF comps = <<>> THEN new_comps
    ELSE LET comp == Head(comps)
         IN  IF comp = <<>> \/ comp = <<".">>
             THEN collapse(Tail(comps), new_comps, initial_slashes)
             ELSE IF \/ comp # DOTDOT
                     \/ (initial_slashes = 0 /\ new_comps = <<>>)
                     \/ (new_comps # <<>> /\ new_comps[Len(new_comps)] = DOTDOT)
             THEN collapse(Tail(comps), Append(new_comps, comp), initial_slashes)
             ELSE IF new_comps # <<>>
             THEN collapse(Tail(comps), SubSeq(new_comps, 1, Len(new_comps) - 1),
                           initial_slashes)
             ELSE collapse(Tail(comps), new_comps, initial_slashes)

\* os.path.normpath(path)
normpath(path) ==
    IF path = <<>> THEN <<".">>
    ELSE LET initial_slashes ==
                 IF ~startswith(path, <<SEP>>) THEN 0
                 ELSE IF startswith(path, <<SEP, SEP>>)
                         /\ ~startswith(path, <<SEP, SEP, SEP>>) THEN 2
                 ELSE 1
             body == joinsep(collapse(split(path), <<>>, initial_slashes))
             full == Fill(SEP, initial_slashes) \o body
         IN  IF full = <<>> THEN <<".">> ELSE full

\* os.path.abspath(path)
abspath(path) ==
    IF startswith(path, <<SEP>>) THEN normpath(path) ELSE normpath(join(CWD, path))

\* the components of an absolute path string: the key of a filesystem entry
parts(path) == SelectSeq(split(path), LAMBDA c : c # <<>>)

STORE == parts(abspath(DOWNLOADS_DIR))

Dir == [kind |-> "dir", mtime |-> 0, size |-> 0]
NoEntry == [kind |-> "none", mtime |-> 0, size |-> 0]

\* the entry the operating system reaches by walking comps from node at,
\* or <<"ENOENT">> when a component is missing or is not a directory
RECURSIVE walk(_, _, _)
walk(f, at, comps) ==
    IF comps = <<>> THEN at
    ELSE IF at \notin DOMAIN f \/ f[at].kind # "dir" THEN << <<"ENOENT">> >>
    ELSE LET comp == Head(comps)
         IN  IF comp = <<>> \/ comp = <<".">> THEN walk(f, at, Tail(comps))
             ELSE IF comp = DOTDOT
             THEN walk(f, IF at = <<>> THEN at ELSE SubSeq(at, 1, Len(at) - 1),
                       Tail(comps))
             ELSE walk(f, Append(at, comp), Tail(comps))

\* stat(path): the entry a path string names, NoEntry when there is none
stat(f, path) ==
    IF path = <<>> THEN NoEntry
    ELSE LET at == walk(f, IF startswith(path, <<SEP>>) THEN <<>> ELSE parts(CWD),
                        split(path))
         IN  IF at \in DOMAIN f THEN f[at] ELSE NoEntry

\* os.path.exists(path), os.path.isfile(path)
exists(f, path) == stat(f, path).kind # "none"
isfile(f, path) == stat(f, path).kind = "file"

\* os.listdir(DOWNLOADS_DIR): the names of the entries of the store directory
listdir(f) ==
    {p[Len(p)] : p \in {q \in DOMAIN f :
                            Len(q) = Len(STORE) + 1 /\ SubSeq(q, 1, Len(STORE)) = STORE}}

\* the filesystem after os.remove of the entry at
remove(f, at) == [q \in DOMAIN f \ {at} |-> f[q]]

\* the filesystem after a file is written (created or replaced) at
write(f, at, mtime, size) ==
    [q \in DOMAIN f \cup {at} |->
        IF q = at THEN [kind |-> "file", mtime |-> mtime, size |-> size] ELSE f[q]]

(***************************************************************************)
(* Responses                                                               *)
(***************************************************************************)
NoFiles == {}

\* jsonify({'success': ..., 'message': ...}), status
Json(status, success, message) ==
    [status |-> status, kind |-> "json", success |-> success, message |-> message,
     filename |-> <<>>, url |-> <<>>, files |-> NoFiles]

\* jsonify({'success': True, 'message': ..., 'filename': ..., 'download_url': ...})
JsonFile(message, filename, url) ==
    [status |-> 200, kind |-> "json", success |-> TRUE, message |-> message,
     filename |-> filename, url |-> url, files |-> NoFiles]

\* a response without a JSON body: '' with 204, a file stream, a redirect,
\* or the server's answer to an exception no handler caught ("fault")
Plain(status, kind, filename) ==
    [status |-> status, kind |-> kind, success |-> FALSE, message |-> <<>>,
     filename |-> filename, url |-> <<>>, files |-> NoFiles]

\* jsonify(files)
JsonList(files) ==
    [status |-> 200, kind |-> "list", success |-> FALSE, message |-> <<>>,
     filename |-> <<>>, url |-> <<>>, files |-> files]

DOWNLOAD_FILE_URL == <<"/download_file/">>

\* what a handler did: its response, the filesystem it leaves, the paths it
\* handed to the filesystem
Done(r, f, paths) == [resp |-> r, fs |-> f, touched |-> paths]

at(path) == parts(abspath(path))

(***************************************************************************)
(* File store handlers                                                     *)
(***************************************************************************)
\* outcomes of os.remove on an existing regular file
RemoveOutcomes == {"removed", "PermissionError", "OSError"}

\* variant: the target is looked up before the name is screened
delete_file_lookup_first(filename, f, rm) ==
    LET file_path == join(DOWNLOADS_DIR, filename)
    IN  IF filename = <<>> \/ strip(filename) = <<>>
        THEN Done(Json(400, FALSE, <<"Invalid filename">>), f, {})
        ELSE IF ~exists(f, file_path)
        THEN Done(Json(404, FALSE, <<"File not found">>), f, {at(file_path)})
        ELSE IF \/ contains(filename, <<"/">>) \/ contains(filename, <<"\\">>)
                \/ contains(filename, DOTDOT) \/ startswith(filename, <<".">>)
        THEN Done(Json(400, FALSE,
                       <<"Invalid filename - contains forbidden characters">>), f, {})
        ELSE IF ~isfile(f, file_path)
        THEN Done(Json(400, FALSE, <<"Invalid file type">>), f, {at(file_path)})
        ELSE IF rm = "PermissionError"
        THEN Done(Json(403, FALSE, <<"Permission denied - cannot delete file">>),
                  f, {at(file_path)})
        ELSE IF rm = "OSError"
        THEN Done(Json(500, FALSE, <<"File system error: ", rm>>), f, {at(file_path)})
        ELSE Done(Plain(204, "empty", <<>>), remove(f, at(file_path)), {at(file_path)})

\* variant: no existence check, a missing target surfaces as the OSError of
\* os.remove
delete_file_no_lookup(filename, f, rm) ==
    LET file_path == join(DOWNLOADS_DIR, filename)
    IN  IF filename = <<>> \/ strip(filename) = <<>>
        THEN Done(Json(400, FALSE, <<"Invalid filename">>), f, {})
        ELSE IF \/ contains(filename, <<"/">>) \/ contains(filename, <<"\\">>)
                \/ contains(filename, DOTDOT) \/ startswith(filename, <<".">>)
        THEN Done(Json(400, FALSE,
                       <<"Invalid filename - contains forbidden characters">>), f, {})
        ELSE IF ~isfile(f, file_path) \/ rm = "OSError"
        THEN Done(Json(500, FALSE, <<"File system error: ", "OSError">>), f,
                  {at(file_path)})
        ELSE IF rm = "PermissionError"
        THEN Done(Json(403, FALSE, <<"Permission denied - cannot delete file">>),
                  f, {at(file_path)})
        ELSE Done(Plain(204, "empty", <<>>), remove(f, at(file_path)), {at(file_path)})

delete_file(filename, f, rm) ==
    LET file_path == join(DOWNLOADS_DIR, filename)
        downloads_abs_path == abspath(DOWNLOADS_DIR)
        file_abs_path == abspath(file_path)
    IN  IF filename = <<>> \/ strip(filename) = <<>>
        THEN Done(Json(400, FALSE, <<"Invalid filename">>), f, {})
        ELSE IF \/ contains(filename, <<"/">>) \/ contains(filename, <<"\\">>)
                \/ contains(filename, DOTDOT) \/ startswith(filename, <<".">>)
        THEN Done(Json(400, FALSE,
                       <<"Invalid filename - contains forbidden characters">>), f, {})
        ELSE IF /\ ~startswith(file_abs_path, downloads_abs_path \o <<SEP>>)
                /\ file_abs_path # downloads_abs_path
        THEN Done(Json(400, FALSE, <<"Invalid file path">>), f, {})
        ELSE IF ~exists(f, file_path)
        THEN Done(Json(404, FALSE, <<"File not found">>), f, {at(file_path)})
        ELSE IF ~isfile(f, file_path)
        THEN Done(Json(400, FALSE, <<"Invalid file type">>), f, {at(file_path)})
        ELSE IF rm = "PermissionError"
        THEN Done(Json(403, FALSE, <<"Permission denied - cannot delete file">>),
                  f, {at(file_path)})
        ELSE IF rm = "OSError"
        THEN Done(Json(500, FALSE, <<"File system error: ", rm>>), f, {at(file_path)})
        ELSE Done(Plain(204, "empty", <<>>), remove(f, at(file_path)), {at(file_path)})

\* send_file streams a regular file and raises on anything else; the handler
\* catches nothing
download_file(filename, f) ==
    LET file_path == join(DOWNLOADS_DIR, filename)
    IN  IF exists(f, file_path)
        THEN IF isfile(f, file_path)
             THEN Done(Plain(200, "file", filename), f, {at(file_path)})
             ELSE Done(Plain(500, "fault", <<>>), f, {at(file_path)})
        ELSE Done(Plain(302, "redirect", <<>>), f, {at(file_path)})

\* the order of os.listdir is unspecified: the listing is modelled as a set
list_downloads(f) ==
    IF exists(f, DOWNLOADS_DIR)
    THEN Done(JsonList({[name |-> filename,
                         size |-> stat(f, join(DOWNLOADS_DIR, filename)).size,
                         url |-> DOWNLOAD_FILE_URL \o filename] :
                            filename \in {n \in listdir(f) :
                                             isfile(f, join(DOWNLOADS_DIR, n))}}),
              f, {at(DOWNLOADS_DIR)}
                    \cup {at(join(DOWNLOADS_DIR, n)) : n \in listdir(f)})
    ELSE Done(JsonList({}), f, {at(DOWNLOADS_DIR)})

(***************************************************************************)
(* Download orchestrator                                                   *)
(***************************************************************************)
UNKNOWN == <<"U", "n", "k", "n", "o", "w", "n">>

\* os.path.basename(path)
basename(path) == split(path)[Len(split(path))]

\* What the extraction collaborator does in one request:
\*   info     "raise", "title" (metadata with a title) or "untitled"
\*   title    the title of the metadata
\*   ext      the extension prepare_filename substitutes for %(ext)s
\*   transfer "raise", "expected" (writes the expected file), "renamed"
\*            (writes the file under another name) or "nothing"
\*   msg      the message of the exception it raises
\*   size     the size of the file it writes
\* The name it writes when it renames is the expected name with _1 appended
\* to the stem.
renamed(stem, ext) == stem \o <<"_", "1", ".">> \o ext

\* variant: an exception of the transfer is not caught
download_video_transfer_uncaught(video_input, f, now, collab) ==
    LET valid == validate_youtube_input(video_input)
        video_title == IF collab.info = "title" THEN collab.title ELSE UNKNOWN
        sanitized_title == replace_char(replace_char(video_title, " ", "_"), "/", "-")
        expected_filename == join(DOWNLOADS_DIR, sanitized_title \o <<".">> \o collab.ext)
        expected_basename == basename(expected_filename)
        written == IF collab.transfer = "expected" THEN expected_basename
                   ELSE renamed(sanitized_title, collab.ext)
        f2 == IF collab.transfer \in {"expected", "renamed"}
              THEN write(f, at(join(DOWNLOADS_DIR, written)), now, collab.size)
              ELSE f
        all_files == {n \in listdir(f2) : isfile(f2, join(DOWNLOADS_DIR, n))}
        \* max(all_files, key=getmtime); written files have distinct mtimes
        newest_file == CHOOSE n \in all_files : \A m \in all_files :
                           stat(f2, join(DOWNLOADS_DIR, m)).mtime
                               <= stat(f2, join(DOWNLOADS_DIR, n)).mtime
        ok_message == <<"Video \"">> \o video_title \o <<"\" downloaded successfully!">>
    IN  IF ~valid.ok
        THEN Done(Json(200, FALSE, <<"Error downloading video: ", valid.error>>), f, {})
        ELSE IF collab.info = "raise"
        THEN Done(Json(200, FALSE, <<"Error downloading video: ", collab.msg>>), f, {})
        ELSE IF collab.transfer = "raise"
        THEN Done(Plain(500, "fault", <<>>), f, {})
        ELSE IF exists(f2, expected_filename)
        THEN Done(JsonFile(ok_message, expected_basename,
                           DOWNLOAD_FILE_URL \o expected_basename),
                  f2, {at(expected_filename)})
        ELSE IF all_files # {}
        THEN Done(JsonFile(ok_message, newest_file, DOWNLOAD_FILE_URL \o newest_file),
                  f2, {at(expected_filename), at(DOWNLOADS_DIR)}
                          \cup {at(join(DOWNLOADS_DIR, n)) : n \in listdir(f2)})
        ELSE Done(Json(200, FALSE,
                       <<"Video was downloaded but file could not be located">>),
                  f2, {at(expected_filename), at(DOWNLOADS_DIR)}
                          \cup {at(join(DOWNLOADS_DIR, n)) : n \in listdir(f2)})

download_video(video_input, f, now, collab) ==
    LET valid == validate_youtube_input(video_input)
        video_title == IF collab.info = "title" THEN collab.title ELSE UNKNOWN
        sanitized_title == replace_char(replace_char(video_title, " ", "_"), "/", "-")
        expected_filename == join(DOWNLOADS_DIR, sanitized_title \o <<".">> \o collab.ext)
        expected_basename == basename(expected_filename)
        written == IF collab.transfer = "expected" THEN expected_basename
                   ELSE renamed(sanitized_title, collab.ext)
        f2 == IF collab.transfer \in {"expected", "renamed"}
              THEN write(f, at(join(DOWNLOADS_DIR, written)), now, collab.size)
              ELSE f
        all_files == {n \in listdir(f2) : isfile(f2, join(DOWNLOADS_DIR, n))}
        \* max(all_files, key=getmtime); written files have distinct mtimes
        newest_file == CHOOSE n \in all_files : \A m \in all_files :
                           stat(f2, join(DOWNLOADS_DIR, m)).mtime
                               <= stat(f2, join(DOWNLOADS_DIR, n)).mtime
        ok_message == <<"Video \"">> \o video_title \o <<"\" downloaded successfully!">>
    IN  IF ~valid.ok
        THEN Done(Json(200, FALSE, <<"Error downloading video: ", valid.error>>), f, {})
        ELSE IF collab.info = "raise"
        THEN Done(Json(200, FALSE, <<"Error downloading video: ", collab.msg>>), f, {})
        ELSE IF collab.transfer = "raise"
        THEN Done(Json(200, FALSE, <<"Error downloading video: ", collab.msg>>), f, {})
        ELSE IF exists(f2, expected_filename)
        THEN Done(JsonFile(ok_message, expected_basename,
                           DOWNLOAD_FILE_URL \o expected_basename),
                  f2, {at(expected_filename)})
        ELSE IF all_files # {}
        THEN Done(JsonFile(ok_message, newest_file, DOWNLOAD_FILE_URL \o newest_file),
                  f2, {at(expected_filename), at(DOWNLOADS_DIR)}
                          \cup {at(join(DOWNLOADS_DIR, n)) : n \in listdir(f2)})
        ELSE Done(Json(200, FALSE,
                       <<"Video was downloaded but file could not be located">>),
                  f2, {at(expected_filename), at(DOWNLOADS_DIR)}
                          \cup {at(join(DOWNLOADS_DIR, n)) : n \in listdir(f2)})

(***************************************************************************)
(* Requests, handled one at a time                                         *)
(***************************************************************************)
NameChars == {"a", ".", "/", "\\", " "}
ShortNames == UNION {[1..n -> NameChars] : n \in 0..MaxNameLen}
\* "..", "../../a", "a/b", ".a", "a..a", "aa", " a", "  ", "a\a"
CraftedNames ==
    {<<".", ".">>, <<".", ".", "/", ".", ".", "/", "a">>, <<"a", "/", "b">>,
     <<".", "a">>, <<"a", ".", ".", "a">>, <<"a", "a">>, <<" ", "a">>,
     <<" ", " ">>, <<"a", "\\", "a">>}
Names == ShortNames \cup CraftedNames

\* names a caller supplies: any short text, a crafted name, or a name it was
\* shown by a listing
RequestNames(f) == Names \cup listdir(f)

\* entries found inside the store directory at start-up: files left by earlier
\* runs and directories made by hand
StartNames == {<<"a">>, <<"a", "a">>}
StartSizes == {100, 200}
StartEntries == {Dir} \cup {[kind |-> "file", mtime |-> 0, size |-> z] : z \in StartSizes}

VideoInputs == {<<>>, <<"a", "<">>, Fill("a", IdLen)}
Titles == {<<"a", " ", "/">>}
Exts == {<<"m", "p", "4">>}
Messages == {"Video unavailable"}
Sizes == {100}
\* the behaviours of the collaborator; when the metadata step raises, the
\* transfer is never asked for
Collabs ==
    {c \in [info : {"raise", "title", "untitled"}, title : Titles, ext : Exts,
            transfer : {"raise", "expected", "renamed", "nothing"},
            msg : Messages, size : Sizes] :
        c.info = "raise" => c.transfer = "raise"}

\* the last request: the handler, the text it was given and, for a download,
\* the expected file name, the name the collaborator wrote ("" for none), the
\* message the collaborator raised and the step it raised in
NoCall == [op |-> "none", name |-> <<>>, expected |-> <<>>, wrote |-> <<>>,
           raised |-> "", stage |-> ""]
Call(op, name) == [NoCall EXCEPT !.op = op, !.name = name]
NoResp == Plain(0, "none", <<>>)

\* the filesystem at start-up: /, the working directory, the store directory
\* (created at import when missing) and the entries found in it
InitFs(entries) ==
    [q \in {<<>>, parts(CWD), STORE} \cup {Append(STORE, n) : n \in DOMAIN entries} |->
        IF Len(q) > Len(STORE) THEN entries[q[Len(q)]] ELSE Dir]

StartFs ==
    {InitFs(entries) : entries \in UNION {[S -> StartEntries] : S \in SUBSET StartNames}}

InitIdle ==
    /\ raw = <<>> /\ norm = None
    /\ clock = 0
    /\ call = NoCall
    /\ resp = NoResp
    /\ touched = {}
    /\ deleted = {}
    /\ pc = [p \in 1..NumWorkers |-> "idle"]
    /\ loc = [p \in 1..NumWorkers |->
                 [name |-> <<>>, expected |-> <<>>, entries |-> {}, files |-> {},
                  resp |-> NoResp]]

Handled(done) ==
    /\ resp' = done.resp
    /\ fs' = done.fs
    /\ touched' = done.touched

\* DELETE /delete_file/<filename> for a name of the set names
DeleteFileOf(names) ==
    \E filename \in names :
      \E rm \in IF isfile(fs, join(DOWNLOADS_DIR, filename))
                THEN RemoveOutcomes ELSE {"removed"} :
        LET done == delete_file(filename, fs, rm)
        IN  /\ Handled(done)
            /\ call' = Call("delete", filename)
            /\ deleted' = IF done.resp.status = 204
                          THEN deleted \cup
                                 {[name |-> filename,
                                   mtime |-> stat(fs, join(DOWNLOADS_DIR, filename)).mtime]}
                          ELSE deleted
            /\ UNCHANGED <<clock, normVars, procVars>>

DeleteFile == DeleteFileOf(RequestNames(fs))

\* GET /download_file/<filename>
DownloadFile ==
    \E filename \in RequestNames(fs) :
        /\ Handled(download_file(filename, fs))
        /\ call' = Call("serve", filename)
        /\ UNCHANGED <<clock, deleted, normVars, procVars>>

\* GET /list_downloads
ListDownloads ==
    /\ Handled(list_downloads(fs))
    /\ call' = Call("list", <<>>)
    /\ UNCHANGED <<clock, deleted, normVars, procVars>>

\* the file store handlers, one request at a time
InitStore == InitIdle /\ fs \in StartFs

NextStore == DeleteFile \/ DownloadFile \/ ListDownloads

SpecStore == InitStore /\ [][NextStore]_vars

\* POST /download
DownloadVideo ==
    \E video_input \in VideoInputs :
      \* the collaborator is called only for an input the normalizer accepts
      \E collab \in IF validate_youtube_input(video_input).ok
                    THEN Collabs ELSE {CHOOSE c \in Collabs : TRUE} :
        LET done == download_video(video_input, fs, clock + 1, collab)
            reached == validate_youtube_input(video_input).ok
            stem == replace_char(replace_char(
                        IF collab.info = "title" THEN collab.title ELSE UNKNOWN,
                        " ", "_"), "/", "-")
            transferred == reached /\ collab.info # "raise"
        IN  /\ clock < MaxWrites
            /\ Handled(done)
            /\ clock' = IF done.fs # fs THEN clock + 1 ELSE clock
            /\ call' = [op |-> "download", name |-> video_input,
                        expected |-> IF transferred
                                     THEN stem \o <<".">> \o collab.ext ELSE <<>>,
                        wrote |-> IF ~transferred THEN <<>>
                                  ELSE IF collab.transfer = "expected"
                                       THEN stem \o <<".">> \o collab.ext
                                  ELSE IF collab.transfer = "renamed"
                                       THEN renamed(stem, collab.ext)
                                  ELSE <<>>,
                        raised |-> IF reached /\ (collab.info = "raise"
                                                  \/ collab.transfer = "raise")
                                   THEN collab.msg ELSE "",
                        stage |-> IF ~reached THEN ""
                                  ELSE IF collab.info = "raise" THEN "info"
                                  ELSE IF collab.transfer = "raise" THEN "transfer"
                                  ELSE ""]
            /\ UNCHANGED <<deleted, normVars, procVars>>

\* DELETE /delete_file/<filename> for a listed or a crafted name
DeleteListed == DeleteFileOf(listdir(fs) \cup CraftedNames)

\* downloads, deletions and listings, one request at a time, from a store
\* that holds no file yet
InitDownload == InitIdle /\ fs \in {InitFs(<<>>), InitFs([n \in {<<"a">>} |-> Dir])}

NextDownload == DownloadVideo \/ DeleteListed \/ ListDownloads

SpecDownload == InitDownload /\ [][NextDownload]_vars

(***************************************************************************)
(* Concurrent requests: the server handles each request on a thread of its *)
(* own, so the filesystem calls of the handlers interleave.  Each action   *)
(* below is one handler up to and including its next filesystem call.      *)
(* Callers use the names a listing showed them.                            *)
(***************************************************************************)
Workers == 1..NumWorkers

NoLoc == [name |-> <<>>, expected |-> <<>>, entries |-> {}, files |-> {},
          resp |-> NoResp]

Goto(p, label, l) == pc' = [pc EXCEPT ![p] = label] /\ loc' = [loc EXCEPT ![p] = l]
Respond(p, r) == Goto(p, "responded", [loc[p] EXCEPT !.resp = r])
\* an exception leaves the handler: the server answers with its own error page
Fault(p) == Goto(p, "fault", [loc[p] EXCEPT !.resp = Plain(500, "fault", <<>>)])

seqVars == <<call, resp, touched, deleted, normVars>>

\* list_downloads: os.path.exists(DOWNLOADS_DIR) and os.listdir(DOWNLOADS_DIR)
ListEnumerate(p) ==
    /\ pc[p] = "idle"
    /\ Goto(p, "list_next",
            [NoLoc EXCEPT !.entries = IF exists(fs, DOWNLOADS_DIR)
                                      THEN listdir(fs) ELSE {}])
    /\ UNCHANGED <<fs, clock, seqVars>>

\* list_downloads: os.path.isfile(file_path) for the next entry, in any order
ListIsFile(p) ==
    /\ pc[p] = "list_next"
    /\ \E filename \in loc[p].entries :
          IF isfile(fs, join(DOWNLOADS_DIR, filename))
          THEN Goto(p, "list_size", [loc[p] EXCEPT !.name = filename])
          ELSE Goto(p, "list_next",
                    [loc[p] EXCEPT !.entries = loc[p].entries \ {filename}])
    /\ UNCHANGED <<fs, clock, seqVars>>

\* list_downloads: os.path.getsize(file_path), which raises when the file is gone
ListGetSize(p) ==
    /\ pc[p] = "list_size"
    /\ LET filename == loc[p].name
           file_path == join(DOWNLOADS_DIR, filename)
       IN  IF exists(fs, file_path)
           THEN Goto(p, "list_next",
                     [loc[p] EXCEPT
                         !.entries = loc[p].entries \ {filename},
                         !.files = loc[p].files \cup
                                     {[name |-> filename,
                                       size |-> stat(fs, file_path).size,
                                       url |-> DOWNLOAD_FILE_URL \o filename]}])
           ELSE Fault(p)
    /\ UNCHANGED <<fs, clock, seqVars>>

\* list_downloads: return jsonify(files)
ListReturn(p) ==
    /\ pc[p] = "list_next" /\ loc[p].entries = {}
    /\ Respond(p, JsonList(loc[p].files))
    /\ UNCHANGED <<fs, clock, seqVars>>

\* delete_file: the checks of the name and os.path.exists(file_path)
DeleteLookup(p) ==
    /\ pc[p] = "idle"
    /\ \E filename \in listdir(fs) :
          LET file_path == join(DOWNLOADS_DIR, filename)
              downloads_abs_path == abspath(DOWNLOADS_DIR)
              file_abs_path == abspath(file_path)
              l == [NoLoc EXCEPT !.name = filename]
          IN  IF filename = <<>> \/ strip(filename) = <<>>
              THEN Goto(p, "responded",
                        [l EXCEPT !.resp = Json(400, FALSE, <<"Invalid filename">>)])
              ELSE IF \/ contains(filename, <<"/">>) \/ contains(filename, <<"\\">>)
                      \/ contains(filename, DOTDOT) \/ startswith(filename, <<".">>)
              THEN Goto(p, "responded",
                        [l EXCEPT !.resp = Json(400, FALSE,
                            <<"Invalid filename - contains forbidden characters">>)])
              ELSE IF /\ ~startswith(file_abs_path, downloads_abs_path \o <<SEP>>)
                      /\ file_abs_path # downloads_abs_path
              THEN Goto(p, "responded",
                        [l EXCEPT !.resp = Json(400, FALSE, <<"Invalid file path">>)])
              ELSE IF ~exists(fs, file_path)
              THEN Goto(p, "responded",
                        [l EXCEPT !.resp = Json(404, FALSE, <<"File not found">>)])
              ELSE Goto(p, "delete_isfile", l)
    /\ UNCHANGED <<fs, clock, seqVars>>

\* delete_file: os.path.isfile(file_path)
DeleteIsFile(p) ==
    /\ pc[p] = "delete_isfile"
    /\ IF isfile(fs, join(DOWNLOADS_DIR, loc[p].name))
       THEN Goto(p, "delete_remove", loc[p])
       ELSE Respond(p, Json(400, FALSE, <<"Invalid file type">>))
    /\ UNCHANGED <<fs, clock, seqVars>>

\* delete_file: os.remove(file_path); its exceptions are caught and answered
DeleteRemove(p) ==
    /\ pc[p] = "delete_remove"
    /\ LET file_path == join(DOWNLOADS_DIR, loc[p].name)
       IN  IF ~exists(fs, file_path)
           THEN /\ Respond(p, Json(500, FALSE, <<"File system error: ", "OSError">>))
                /\ fs' = fs
           ELSE \E rm \in RemoveOutcomes :
                   IF rm = "removed"
                   THEN /\ Respond(p, Plain(204, "empty", <<>>))
                        /\ fs' = remove(fs, at(file_path))
                   ELSE IF rm = "PermissionError"
                   THEN /\ Respond(p, Json(403, FALSE,
                                           <<"Permission denied - cannot delete file">>))
                        /\ fs' = fs
                   ELSE /\ Respond(p, Json(500, FALSE, <<"File system error: ", rm>>))
                        /\ fs' = fs
    /\ UNCHANGED <<clock, seqVars>>

\* download_file: os.path.exists(file_path)
ServeLookup(p) ==
    /\ pc[p] = "idle"
    /\ \E filename \in listdir(fs) :
          IF exists(fs, join(DOWNLOADS_DIR, filename))
          THEN Goto(p, "serve_send", [NoLoc EXCEPT !.name = filename])
          ELSE Goto(p, "responded",
                    [NoLoc EXCEPT !.name = filename,
                                  !.resp = Plain(302, "redirect", <<>>)])
    /\ UNCHANGED <<fs, clock, seqVars>>

\* download_file: send_file(file_path), which raises unless it finds a regular file
ServeSend(p) ==
    /\ pc[p] = "serve_send"
    /\ IF isfile(fs, join(DOWNLOADS_DIR, loc[p].name))
       THEN Respond(p, Plain(200, "file", loc[p].name))
       ELSE Fault(p)
    /\ UNCHANGED <<fs, clock, seqVars>>

\* download_video up to the end of the transfer: the collaborator writes the
\* file, under the expected name or under another one
Transfer(p) ==
    /\ pc[p] = "idle"
    /\ clock < MaxWrites
    /\ \E collab \in {c \in Collabs : c.info = "title"
                                      /\ c.transfer \in {"expected", "renamed"}} :
          LET video_title == IF collab.info = "title" THEN collab.title ELSE UNKNOWN
              sanitized_title ==
                  replace_char(replace_char(video_title, " ", "_"), "/", "-")
              expected_basename == sanitized_title \o <<".">> \o collab.ext
              written == IF collab.transfer = "expected" THEN expected_basename
                         ELSE renamed(sanitized_title, collab.ext)
          IN  /\ fs' = write(fs, at(join(DOWNLOADS_DIR, written)),
                             clock + 1, collab.size)
              /\ Goto(p, "download_lookup",
                      [NoLoc EXCEPT !.name = written, !.expected = expected_basename])
    /\ clock' = clock + 1
    /\ UNCHANGED seqVars

\* download_video: os.path.exists(expected_filename), else the listing of the
\* regular files of the store
DownloadLookup(p) ==
    /\ pc[p] = "download_lookup"
    /\ IF exists(fs, join(DOWNLOADS_DIR, loc[p].expected))
       THEN Respond(p, JsonFile(<<"downloaded successfully!">>, loc[p].expected,
                                DOWNLOAD_FILE_URL \o loc[p].expected))
       ELSE Goto(p, "download_newest",
                 [loc[p] EXCEPT !.entries =
                     {n \in listdir(fs) : isfile(fs, join(DOWNLOADS_DIR, n))}])
    /\ UNCHANGED <<fs, clock, seqVars>>

\* download_video: max(all_files, key=getmtime); an exception of getmtime is
\* caught and answered with a failure
DownloadNewest(p) ==
    /\ pc[p] = "download_newest"
    /\ LET all_files == loc[p].entries
           newest_file == CHOOSE n \in all_files : \A m \in all_files :
                              stat(fs, join(DOWNLOADS_DIR, m)).mtime
                                  <= stat(fs, join(DOWNLOADS_DIR, n)).mtime
       IN  IF all_files = {}
           THEN Respond(p, Json(200, FALSE,
                          <<"Video was downloaded but file could not be located">>))
           ELSE IF \E n \in all_files : ~exists(fs, join(DOWNLOADS_DIR, n))
           THEN Respond(p, Json(200, FALSE, <<"Error downloading video: ", "OSError">>))
           ELSE Respond(p, JsonFile(<<"downloaded successfully!">>, newest_file,
                                    DOWNLOAD_FILE_URL \o newest_file))
    /\ UNCHANGED <<fs, clock, seqVars>>

\* the response is sent and the thread ends
Return(p) ==
    /\ pc[p] \in {"responded", "fault"}
    /\ Goto(p, "idle", NoLoc)
    /\ UNCHANGED <<fs, clock, seqVars>>

InitConc ==
    /\ InitIdle
    /\ fs = InitFs([n \in {<<"a">>} |-> [kind |-> "file", mtime |-> 0, size |-> 100]])

NextConc ==
    \E p \in Workers :
        \/ ListEnumerate(p) \/ ListIsFile(p) \/ ListGetSize(p) \/ ListReturn(p)
        \/ DeleteLookup(p) \/ DeleteIsFile(p) \/ DeleteRemove(p)
        \/ ServeLookup(p) \/ ServeSend(p)
        \/ Transfer(p)
        \/ DownloadLookup(p) \/ DownloadNewest(p)
        \/ Return(p)

SpecConc == InitConc /\ [][NextConc]_vars

(***************************************************************************)
(* Inputs of the normalizer: lead \o head \o fill \o tail \o trail, where  *)
(* the core head \o fill \o tail has a length in CoreLens.                 *)
(***************************************************************************)
Leads == {<<>>, <<" ">>}
Trails == {<<>>, <<" ">>, <<"\t", " ">>}
Heads == {<<>>, HTTP, HTTPS, YOUTUBE_COM \o <<"/">>, YOUTU_BE \o <<"/">>,
          <<"Z", "-">>, <<"h", "t", "t", "p">>}
Tails == {<<>>, <<"<">>, <<">">>, <<"\"">>, <<"'">>, <<"9">>, <<" ", "a">>}
FillChars == {"a", "-", "_", "."}

CoreLens == (0..MaxShortLen)
            \cup ((MaxUrlLen - LongSlack)..(MaxUrlLen + LongSlack))

Inputs ==
    {l \o h \o Fill(c, n - Len(h) - Len(t)) \o t \o r :
        <<l, h, c, n, t, r>> \in
            {x \in Leads \X Heads \X FillChars \X CoreLens \X Tails \X Trails :
                x[4] >= Len(x[2]) + Len(x[5])}}

InitNorm ==
    /\ raw \in Inputs /\ norm = None
    /\ fs = InitFs(<<>>) /\ clock = 0 /\ call = NoCall /\ resp = NoResp
    /\ touched = {} /\ deleted = {}
    /\ pc = [p \in Workers |-> "idle"] /\ loc = [p \in Workers |-> NoLoc]

\* one call of validate_youtube_input on the submitted text
Validate ==
    /\ norm = None
    /\ norm' = validate_youtube_input(raw)
    /\ UNCHANGED <<raw, storeVars, procVars>>

NextNorm == Validate

SpecNorm == InitNorm /\ [][NextNorm]_vars

(***************************************************************************)
(* Properties of the normalizer (checked under SpecNorm)                   *)
(***************************************************************************)
Validated == norm # None

\* C4: every locator returned for an accepted input begins with http:// or
\* https://, contains none of < > " ' and has length at most 2048.
C4_LocatorInvariant ==
    (Validated /\ norm.ok) =>
        /\ has_scheme(norm.url)
        /\ \A i \in 1..Len(norm.url) : norm.url[i] \notin ForbiddenChars
        /\ Len(norm.url) <= MaxUrlLen

\* C5 (as stated): for any input that starts with http:// or https://,
\* normalize returns the input unchanged (an input normalize rejects returns
\* nothing and is left aside).
C5_SchemeInputUnchanged ==
    (Validated /\ norm.ok /\ has_scheme(raw)) => norm.url = raw

\* C5 (amended): for any accepted input that starts with http:// or https://,
\* normalize returns the input with its trailing whitespace removed, and
\* nothing else changed.
C5_SchemeInputTrimmed ==
    (Validated /\ norm.ok /\ has_scheme(raw)) =>
        \E k \in 1..Len(raw) :
            /\ norm.url = SubSeq(raw, 1, k)
            /\ raw[k] \notin Whitespace
            /\ \A i \in (k + 1)..Len(raw) : raw[i] \in Whitespace

C5_Witness ==
    /\ Validated /\ norm.ok /\ has_scheme(raw)
    /\ raw[Len(raw)] \in Whitespace

IsBareId(s) ==
    Len(s) = IdLen /\ \A i \in 1..Len(s) : s[i] \in AlnumChars \cup {"-", "_"}

\* C6: for any 11-character string id of alphanumerics, '-' and '_' (ids made
\* only of '-' and '_' included), normalize(id) is the watch URL followed by id.
C6_BareIdWatchUrl ==
    (Validated /\ IsBareId(raw)) => (norm.ok /\ norm.url = WATCH_URL \o raw)

C6_Witness ==
    /\ Validated /\ IsBareId(raw)
    /\ \A i \in 1..Len(raw) : raw[i] \in {"-", "_"}

\* C7: normalize fails, returning no locator, exactly when the input is empty
\* or all whitespace, or its trimmed form contains one of < > " ', or its
\* trimmed form is longer than 2048 characters; every other input is accepted.
C7_RejectedExactlyWhen ==
    Validated =>
        /\ (~norm.ok) <=>
               \/ \A i \in 1..Len(raw) : raw[i] \in Whitespace
               \/ LET trimmed == strip(raw)
                  IN  \/ \E i \in 1..Len(trimmed) : trimmed[i] \in ForbiddenChars
                      \/ Len(trimmed) > MaxUrlLen
        /\ (~norm.ok) => (norm.url = <<>> /\ norm.error # "")
        /\ norm.ok => norm.url # <<>>

C7_Witness ==
    /\ Validated /\ ~norm.ok
    /\ Len(strip(raw)) > MaxUrlLen
    /\ \A i \in 1..Len(raw) : raw[i] \notin ForbiddenChars

(***************************************************************************)
(* Properties of the file store handlers (checked under SpecStore)         *)
(***************************************************************************)
\* an absolute path lies within the store directory (or is the directory)
InsideStore(p) == Len(p) >= Len(STORE) /\ SubSeq(p, 1, Len(STORE)) = STORE

\* C1: for every name a caller supplies, every path a file-store operation
\* (delete, serve, list) hands to the filesystem lies within the store directory.
C1_StoreNeverEscaped ==
    call.op \in {"delete", "serve", "list"} => \A p \in touched : InsideStore(p)

\* the five checks of delete, as the specification words them
NameEmpty(n) == \A i \in 1..Len(n) : n[i] \in Whitespace
NameForbidden(n) ==
    \/ \E i \in 1..Len(n) : n[i] \in {"/", "\\"}
    \/ \E i \in 1..(Len(n) - 1) : n[i] = "." /\ n[i + 1] = "."
    \/ (Len(n) > 0 /\ n[1] = ".")
PathEscapes(n) == ~InsideStore(at(join(DOWNLOADS_DIR, n)))
TargetMissing(f, n) == Append(STORE, n) \notin DOMAIN f
TargetNotRegular(f, n) == f[Append(STORE, n)].kind # "file"

\* the error of the first check that fails, "none" when all five pass
FirstFailure(f, n) ==
    IF NameEmpty(n) THEN <<400, "Invalid filename">>
    ELSE IF NameForbidden(n)
    THEN <<400, "Invalid filename - contains forbidden characters">>
    ELSE IF PathEscapes(n) THEN <<400, "Invalid file path">>
    ELSE IF TargetMissing(f, n) THEN <<404, "File not found">>
    ELSE IF TargetNotRegular(f, n) THEN <<400, "Invalid file type">>
    ELSE <<0, "none">>

\* the regular files of the store directory, with their attributes
StoredFiles(f) ==
    {<<n, f[Append(STORE, n)]>> : n \in {m \in listdir(f) : f[Append(STORE, m)].kind = "file"}}

\* C2: delete(name) applies the checks empty-name, forbidden-name, path-escape,
\* not-found, not-a-regular-file in this order and returns the error of the
\* first that fails; it removes a file only when all five pass, and a delete
\* that returns an error leaves the stored files unchanged.
C2_DeleteChecksInOrder ==
    [][call'.op = "delete" =>
          LET first == FirstFailure(fs, call'.name)
          IN  /\ first[2] # "none" =>
                    /\ resp'.status = first[1]
                    /\ resp'.message = <<first[2]>>
                    /\ resp'.success = FALSE
              /\ StoredFiles(fs') # StoredFiles(fs) => first[2] = "none"
              /\ resp'.status # 204 => StoredFiles(fs') = StoredFiles(fs)]_vars

C2_Witness ==
    /\ call.op = "delete"
    /\ resp.message = <<"Invalid file type">>
    /\ ~NameEmpty(call.name) /\ ~NameForbidden(call.name) /\ ~PathEscapes(call.name)

(***************************************************************************)
(* Properties of deletions, listings and downloads (checked under          *)
(* SpecDownload)                                                           *)
(***************************************************************************)
ListedNames(r) == {e.name : e \in r.files}

\* a file is identified by its name and the time it was written
Holds(f, d) ==
    /\ Append(STORE, d.name) \in DOMAIN f
    /\ f[Append(STORE, d.name)].kind = "file"
    /\ f[Append(STORE, d.name)].mtime = d.mtime

\* what C3 says of a successful delete and of the listings after it
DeleteThenList ==
    /\ (call'.op = "delete" /\ resp'.status = 204) =>
          /\ call'.name \in listdir(fs) /\ call'.name \notin listdir(fs')
          /\ \A n \in listdir(fs) \ {call'.name} :
                 Append(STORE, n) \in DOMAIN fs' /\ fs'[Append(STORE, n)] = fs[Append(STORE, n)]
    /\ call'.op = "list" =>
          /\ \A d \in deleted' : ~(d.name \in ListedNames(resp') /\ Holds(fs', d))
          /\ \A x \in StoredFiles(fs') : x[1] \in ListedNames(resp')

C8_RenamedFileReported ==
    call.op = "download" =>
        /\ (call.wrote # <<>> /\ call.wrote # call.expected) =>
               (resp.success /\ resp.filename = call.wrote)
        /\ (call.expected # <<>> /\ call.raised = "" /\ ~resp.success) =>
               StoredFiles(fs) = {}

\* C9: whenever the collaborator raises, in the metadata step or in the
\* transfer step, download returns a Failure whose message contains the
\* collaborator's message: no fault reaches the caller and no Success is
\* reported.
C9_CollaboratorErrorReported ==
    (call.op = "download" /\ call.raised # "") =>
        /\ resp.kind = "json"
        /\ resp.success = FALSE
        /\ \E i \in 1..Len(resp.message) : resp.message[i] = call.raised

C9_Witness ==
    /\ call.op = "download" /\ call.raised # "" /\ call.stage = "transfer"
    /\ resp.kind = "json"
    /\ StoredFiles(fs) # {}

(***************************************************************************)
(* Properties of concurrent requests (checked under SpecConc)              *)
(***************************************************************************)
\* C10: under every interleaving of the filesystem steps of list, delete,
\* serve and download, each request ends in a structured response: no
\* exception leaves a handler.
C10_NoUnhandledFault == \A p \in Workers : pc[p] # "fault"

====
